---- MODULE Spec2Model ----
(***************************************************************************)
(* Model of the rsfbclient connection core (src/src/connection/mod.rs)     *)
(* running over the native backend                                         *)
(* (src/rsfbclient-native/src/connection.rs).                              *)
(*                                                                         *)
(* Every public call on a Connection is synchronous, so each call is one   *)
(* action.  The outcome of every backend round trip is an input of the     *)
(* action.  A call is written as a function from a "world" record (the     *)
(* state the call can touch) to the world after the call and its result.   *)
(* `log` holds, in order, the calls the last handler made to the backend   *)
(* and to the statement cache.                                             *)
(***************************************************************************)
EXTENDS Integers, Sequences, FiniteSets, TLC

StmtCacheSize == 2    \* the stmt_cache_size the Connection is opened with
MaxSql      == 3      \* number of distinct SQL texts
MaxStmts    == 3      \* statement handles allocated at the backend at once
MaxRows     == 2      \* largest number of rows a cursor holds

Sqls        == 1..MaxSql
StmtHandles == 1..(MaxSql * MaxStmts)
NoStmt      == 0

VARIABLES
    capacity,       \* ConnectionConfiguration.stmt_cache_size
    conn,           \* the Connection value: "open", "closed", "discarded"
    handle,         \* Connection.handle, the database handle value
    db,             \* backend side of that handle: "attached", "detached", "dropped"
    cache,          \* available entries of Connection.stmt_cache, least recently returned first
    checkedOut,     \* statements obtained from get_or_prepare, not yet given back
    allocated,      \* statement handles allocated at the backend and not dropped
    stmt_data_map,  \* NativeFbClient.stmt_data_map (its keys)
    detachCount,    \* number of detach calls issued for the database handle
    iter,           \* the StmtIter returned by query_iter; once dropped, what
                    \* its lifetime did, until the next call on the Connection
    log,            \* calls made by the last handler, in order
    result          \* the last call and what it returned

vars == << capacity, conn, handle, db, cache, checkedOut, allocated,
           stmt_data_map, detachCount, iter, log, result >>

NoIter == [state |-> "none", sql |-> 0, stmt |-> NoStmt, rows |-> 0,
           ended |-> FALSE, cc |-> 0, ret |-> 0, cr |-> 0]

(***************************************************************************)
(* The world a handler works on.                                           *)
(***************************************************************************)
World ==
    [ handle |-> handle, db |-> db, cache |-> cache, checkedOut |-> checkedOut,
      allocated |-> allocated, stmt_data_map |-> stmt_data_map,
      detachCount |-> detachCount, log |-> << >> ]

Store(w) ==
    /\ handle' = w.handle
    /\ db' = w.db
    /\ cache' = w.cache
    /\ checkedOut' = w.checkedOut
    /\ allocated' = w.allocated
    /\ stmt_data_map' = w.stmt_data_map
    /\ detachCount' = w.detachCount
    /\ log' = w.log

Logged(w, op, arg, h, ok) ==
    [w EXCEPT !.log = Append(@, [op |-> op, arg |-> arg, h |-> h, ok |-> ok])]

Ret(w, res) == [w |-> w, res |-> res]

(***************************************************************************)
(* Native backend                                                          *)
(***************************************************************************)
detach_database(w, ok) ==
    IF w.handle # 0
    THEN LET good == ok /\ w.db = "attached"
             w1 == [Logged(w, "detach_database", "", 0, good)
                        EXCEPT !.detachCount = @ + 1]
         IN IF good THEN Ret([w1 EXCEPT !.db = "detached"], "Ok")
                    ELSE Ret(w1, "Err")
    ELSE Ret(w, "Ok")

drop_database(w, ok) ==
    LET good == ok /\ w.db = "attached"
        w1 == Logged(w, "drop_database", "", 0, good)
    IN IF good THEN Ret([w1 EXCEPT !.db = "dropped"], "Ok")
               ELSE Ret(w1, "Err")

begin_transaction(w, ok) ==
    Ret(Logged(w, "begin_transaction", "", 0, ok), IF ok THEN "Ok" ELSE "Err")

transaction_operation(w, op, ok) ==
    Ret(Logged(w, "transaction_operation", op, 0, ok), IF ok THEN "Ok" ELSE "Err")

\* The backend hands out a handle value that is not in use.  Handle values
\* are opaque: the value chosen is the smallest unused one among those
\* congruent to the SQL text, which names the same statements whatever the
\* order they were prepared in.
FreshStmt(used, sql) ==
    LET free == {h \in StmtHandles \ used : h % MaxSql = sql % MaxSql}
    IN CHOOSE h \in free : \A g \in free : h <= g

\* outcome: "alloc_fail" (isc_dsql_allocate_statement failed), "prepare_fail"
\* (a later step failed, the handle stays allocated), "ok"
prepare_statement(w, sql, outcome) ==
    LET h == FreshStmt(w.allocated, sql)
        w1 == Logged(w, "prepare_statement", outcome, 
                     IF outcome = "alloc_fail" THEN NoStmt ELSE h, outcome = "ok")
    IN CASE outcome = "alloc_fail" ->
              [w |-> w1, res |-> "Err", stmt |-> NoStmt]
         [] outcome = "prepare_fail" ->
              [w |-> [w1 EXCEPT !.allocated = @ \cup {h}],
               res |-> "Err", stmt |-> NoStmt]
         [] OTHER ->
              [w |-> [w1 EXCEPT !.allocated = @ \cup {h},
                                !.stmt_data_map = @ \cup {h}],
               res |-> "Ok", stmt |-> h]

\* The backend gets a pointer to stmt_handle, the callee's copy of h; left is
\* the value it leaves there, which is the key removed from the map.
free_statement(w, h, op, ok, left) ==
    LET w1 == Logged(w, "free_statement", op, h, ok)
    IN IF ~ok THEN Ret(w1, "Err")
       ELSE IF op = "Drop"
            THEN Ret([w1 EXCEPT !.stmt_data_map = @ \ {left},
                                !.allocated = @ \ {h}], "Ok")
            ELSE Ret(w1, "Ok")

backend_execute(w, h, ok) ==
    Ret(Logged(w, "execute", "", h, ok), IF ok THEN "Ok" ELSE "Err")

\* outcome: "row", "end" (status 100), "err" (isc_dsql_fetch failed) or
\* "bad_row" (a row was fetched and a column buffer does not convert); a
\* cursor with rows left does not report end of data, an exhausted one
\* yields no row
fetch(w, h, outcome) ==
    IF h \notin w.stmt_data_map
    THEN Ret(w, "Err")
    ELSE Ret(Logged(w, "fetch", outcome, h, outcome \in {"row", "end"}),
             CASE outcome = "row" -> "Row"
               [] outcome = "end" -> "End"
               [] OTHER -> "Err")

\* FromRow::try_from on a row the backend returned
try_from(w, ok) ==
    Ret(Logged(w, "try_from", "", NoStmt, ok), IF ok THEN "Ok" ELSE "Err")

(***************************************************************************)
(* Transaction (crate::Transaction)                                        *)
(***************************************************************************)
TransactionNew(w, ok) == begin_transaction(w, ok)

TransactionCommit(w, ok) == transaction_operation(w, "Commit", ok)

TransactionCommitRetaining(w, ok) ==
    transaction_operation(w, "CommitRetaining", ok)

TransactionRollbackRetaining(w, ok) ==
    transaction_operation(w, "RollbackRetaining", ok)

\* discarding a Transaction that saw no terminal call: a rollback whose
\* outcome is swallowed and changes nothing, so the log records only the call
TransactionDrop(w) == transaction_operation(w, "Rollback", TRUE).w

(***************************************************************************)
(* Statement (crate::statement::StatementData)                             *)
(***************************************************************************)
StmtExecute(w, h, ok) == backend_execute(w, h, ok)

\* The calls of a Connection are followed with a backend that leaves the
\* handle value it is given; NativeSpec follows the backend that clears it.
StmtCloseCursor(w, h, ok) == free_statement(w, h, "CloseCursor", ok, h)

StmtClose(w, h, ok) == free_statement(w, h, "Drop", ok, h)

(***************************************************************************)
(* Statement cache (connection::stmt_cache::StmtCache)                     *)
(***************************************************************************)
HasSql(c, sql) == \E i \in 1..Len(c) : c[i].sql = sql

IndexOf(c, sql) == CHOOSE i \in 1..Len(c) : c[i].sql = sql

RemoveAt(c, i) == SubSeq(c, 1, i - 1) \o SubSeq(c, i + 1, Len(c))

\* faulty variant of get_or_prepare: a hit leaves the entry available
get_or_prepare_sharing(w, sql, outcome) ==
    IF HasSql(w.cache, sql)
    THEN LET i == IndexOf(w.cache, sql)
             h == w.cache[i].stmt
             w1 == Logged(w, "get_or_prepare", "hit", h, TRUE)
         IN [w |-> [w1 EXCEPT !.checkedOut = @ \cup {h}],
             res |-> "Ok", stmt |-> h]
    ELSE LET p == prepare_statement(w, sql, outcome)
             w1 == Logged(p.w, "get_or_prepare", "miss", p.stmt, p.res = "Ok")
         IN IF p.res = "Ok"
            THEN [w |-> [w1 EXCEPT !.checkedOut = @ \cup {p.stmt}],
                  res |-> "Ok", stmt |-> p.stmt]
            ELSE [w |-> w1, res |-> "Err", stmt |-> NoStmt]

get_or_prepare(w, sql, outcome) ==
    IF HasSql(w.cache, sql)
    THEN LET i == IndexOf(w.cache, sql)
             h == w.cache[i].stmt
             w1 == Logged(w, "get_or_prepare", "hit", h, TRUE)
         IN [w |-> [w1 EXCEPT !.cache = RemoveAt(@, i),
                              !.checkedOut = @ \cup {h}],
             res |-> "Ok", stmt |-> h]
    ELSE LET p == prepare_statement(w, sql, outcome)
             w1 == Logged(p.w, "get_or_prepare", "miss", p.stmt, p.res = "Ok")
         IN IF p.res = "Ok"
            THEN [w |-> [w1 EXCEPT !.checkedOut = @ \cup {p.stmt}],
                  res |-> "Ok", stmt |-> p.stmt]
            ELSE [w |-> w1, res |-> "Err", stmt |-> NoStmt]

\* faulty variant of insert_and_close: an entry is kept although its text has one
insert_and_close_keeping_both(w, data, closeOk) ==
    LET w0 == [w EXCEPT !.checkedOut = @ \ {data.stmt}]
        done(x, res) == Ret(Logged(x, "insert_and_close", "", data.stmt,
                                   res = "Ok"), res)
    IN IF Len(w0.cache) >= capacity
       THEN LET c == StmtClose(w0, Head(w0.cache).stmt, closeOk)
            IN done([c.w EXCEPT !.cache = Append(Tail(@), data)], c.res)
       ELSE done([w0 EXCEPT !.cache = Append(@, data)], "Ok")

\* faulty variant of insert_and_close: a failed backend close leaves the cache as it was
insert_and_close_stopping(w, data, closeOk) ==
    LET w0 == [w EXCEPT !.checkedOut = @ \ {data.stmt}]
        done(x, res) == Ret(Logged(x, "insert_and_close", "", data.stmt,
                                   res = "Ok"), res)
    IN IF HasSql(w0.cache, data.sql)
       THEN LET c == StmtClose(w0, data.stmt, closeOk)
            IN done(c.w, c.res)
       ELSE IF Len(w0.cache) >= capacity
            THEN LET c == StmtClose(w0, Head(w0.cache).stmt, closeOk)
                 IN IF c.res # "Ok" THEN done(c.w, c.res)
                    ELSE done([c.w EXCEPT !.cache = Append(Tail(@), data)],
                              c.res)
            ELSE done([w0 EXCEPT !.cache = Append(@, data)], "Ok")

\* faulty variant of insert_and_close: a full cache takes the entry without evicting
insert_and_close_unbounded(w, data, closeOk) ==
    LET w0 == [w EXCEPT !.checkedOut = @ \ {data.stmt}]
        done(x, res) == Ret(Logged(x, "insert_and_close", "", data.stmt,
                                   res = "Ok"), res)
    IN IF HasSql(w0.cache, data.sql)
       THEN LET c == StmtClose(w0, data.stmt, closeOk)
            IN done(c.w, c.res)
       ELSE done([w0 EXCEPT !.cache = Append(@, data)], "Ok")

\* faulty variant of insert_and_close: a full cache evicts its most recently returned entry
insert_and_close_evict_newest(w, data, closeOk) ==
    LET w0 == [w EXCEPT !.checkedOut = @ \ {data.stmt}]
        done(x, res) == Ret(Logged(x, "insert_and_close", "", data.stmt,
                                   res = "Ok"), res)
        n == Len(w0.cache)
    IN IF HasSql(w0.cache, data.sql)
       THEN LET c == StmtClose(w0, data.stmt, closeOk)
            IN done(c.w, c.res)
       ELSE IF n >= capacity
            THEN LET c == StmtClose(w0, w0.cache[n].stmt, closeOk)
                 IN done([c.w EXCEPT !.cache = Append(SubSeq(@, 1, n - 1),
                                                      data)], c.res)
            ELSE done([w0 EXCEPT !.cache = Append(@, data)], "Ok")

\* closeOk: outcome of the backend drop, when the call makes one
insert_and_close(w, data, closeOk) ==
    LET w0 == [w EXCEPT !.checkedOut = @ \ {data.stmt}]
        done(x, res) == Ret(Logged(x, "insert_and_close", "", data.stmt,
                                   res = "Ok"), res)
    IN IF HasSql(w0.cache, data.sql)
       THEN LET c == StmtClose(w0, data.stmt, closeOk)
            IN done(c.w, c.res)
       ELSE IF Len(w0.cache) >= capacity
            THEN LET c == StmtClose(w0, Head(w0.cache).stmt, closeOk)
                 IN done([c.w EXCEPT !.cache = Append(Tail(@), data)], c.res)
            ELSE done([w0 EXCEPT !.cache = Append(@, data)], "Ok")

\* bad: the statement handles whose backend drop fails in this call
RECURSIVE CloseEach(_, _, _)
CloseEach(w, c, bad) ==
    IF c = << >> THEN w
    ELSE CloseEach(StmtClose(w, Head(c).stmt, Head(c).stmt \notin bad).w,
                   Tail(c), bad)

close_all(w, bad) == [CloseEach(w, w.cache, bad) EXCEPT !.cache = << >>]

(***************************************************************************)
(* Connection (src/src/connection/mod.rs)                                  *)
(***************************************************************************)
\* faulty variant of cleanup_and_detach: the handle is detached before the cache is cleaned
cleanup_and_detach_detach_first(w, bad, detachOk) ==
    LET d == detach_database(w, detachOk)
        w1 == close_all(d.w, bad)
    IN IF d.res # "Ok" THEN Ret(w1, "ErrDetach") ELSE Ret(w1, "Ok")

\* faulty variant of cleanup_and_detach: the detach result is dropped
cleanup_and_detach_ignoring(w, bad, detachOk) ==
    LET w1 == close_all(w, bad)
        d == detach_database(w1, detachOk)
    IN Ret(d.w, "Ok")

cleanup_and_detach(w, bad, detachOk) ==
    LET w1 == close_all(w, bad)
        d == detach_database(w1, detachOk)
    IN IF d.res # "Ok" THEN Ret(d.w, "ErrDetach") ELSE Ret(d.w, "Ok")

\* impl Drop for Connection
ConnectionDrop(w, bad, detachOk) == cleanup_and_detach(w, bad, detachOk).w

\* faulty variant of close: self is dropped at the end of close
close_then_drop(w, bad, detachOk) ==
    LET r == cleanup_and_detach(w, bad, detachOk)
    IN Ret(ConnectionDrop(r.w, {}, detachOk), r.res)

\* ManuallyDrop::new(self): the destructor does not run after close
close(w, bad, detachOk) == cleanup_and_detach(w, bad, detachOk)

\* self is consumed and goes out of scope on both return paths
conn_drop_database(w, dropOk, bad, detachOk) ==
    LET d == drop_database(w, dropOk)
    IN Ret(ConnectionDrop(d.w, bad, detachOk),
           IF d.res # "Ok" THEN "ErrDropDatabase" ELSE "Ok")

\* The closure is the caller's code: it is run once with the Transaction and
\* its outcome ok is what it returns.
closure(w, ok) ==
    Ret(Logged(w, "closure", "", NoStmt, ok), IF ok THEN "Ok" ELSE "Err")

\* faulty variant of with_transaction: commit-retaining whatever the closure returned
with_transaction_always_commit(w, o) ==
    LET t == TransactionNew(w, o.begin)
    IN IF t.res # "Ok" THEN Ret(t.w, "ErrBegin") ELSE
       LET c == closure(t.w, o.closure)
           r == TransactionCommitRetaining(c.w, o.retain)
       IN IF r.res # "Ok"
          THEN Ret(TransactionDrop(r.w), "ErrRetain")
          ELSE Ret(TransactionDrop(r.w),
                   IF c.res = "Ok" THEN "Ok" ELSE "ErrClosure")

\* tr is a local: it is discarded on every path after begin succeeded
with_transaction(w, o) ==
    LET t == TransactionNew(w, o.begin)
    IN IF t.res # "Ok" THEN Ret(t.w, "ErrBegin") ELSE
       LET c == closure(t.w, o.closure)
           r == IF c.res = "Ok"
                THEN TransactionCommitRetaining(c.w, o.retain)
                ELSE TransactionRollbackRetaining(c.w, o.retain)
       IN IF r.res # "Ok"
          THEN Ret(TransactionDrop(r.w), "ErrRetain")
          ELSE Ret(TransactionDrop(r.w),
                   IF c.res = "Ok" THEN "Ok" ELSE "ErrClosure")

\* faulty variant of execute: the execute error returns before the cache return
execute_early_return(w, sql, o) ==
    LET t == TransactionNew(w, o.begin)
    IN IF t.res # "Ok" THEN Ret(t.w, "ErrBegin") ELSE
       LET g == get_or_prepare(t.w, sql, o.prep)
       IN IF g.res # "Ok"
          THEN Ret(TransactionDrop(g.w), "ErrPrepare") ELSE
          LET e == StmtExecute(g.w, g.stmt, o.exec)
          IN IF e.res # "Ok"
             THEN Ret(TransactionDrop(e.w), "ErrExecute") ELSE
             LET i == insert_and_close(e.w, [sql |-> sql, stmt |-> g.stmt],
                                       o.close)
             IN IF i.res # "Ok"
                THEN Ret(TransactionDrop(i.w), "ErrCacheClose") ELSE
                LET c == TransactionCommit(i.w, o.commit)
                IN Ret(c.w, IF c.res = "Ok" THEN "Ok" ELSE "ErrCommit")

execute(w, sql, o) ==
    LET t == TransactionNew(w, o.begin)
    IN IF t.res # "Ok" THEN Ret(t.w, "ErrBegin") ELSE
       LET g == get_or_prepare(t.w, sql, o.prep)
       IN IF g.res # "Ok"
          THEN Ret(TransactionDrop(g.w), "ErrPrepare") ELSE
          LET e == StmtExecute(g.w, g.stmt, o.exec)
              i == insert_and_close(e.w, [sql |-> sql, stmt |-> g.stmt], o.close)
          IN IF i.res # "Ok"
             THEN Ret(TransactionDrop(i.w), "ErrCacheClose") ELSE
             IF e.res # "Ok"
             THEN Ret(TransactionDrop(i.w), "ErrExecute") ELSE
             LET c == TransactionCommit(i.w, o.commit)
             IN Ret(c.w, IF c.res = "Ok" THEN "Ok" ELSE "ErrCommit")

execute_returnable(w, sql, o) ==
    LET t == TransactionNew(w, o.begin)
    IN IF t.res # "Ok" THEN Ret(t.w, "ErrBegin") ELSE
       LET g == get_or_prepare(t.w, sql, o.prep)
       IN IF g.res # "Ok"
          THEN Ret(TransactionDrop(g.w), "ErrPrepare") ELSE
          LET e == StmtExecute(g.w, g.stmt, o.exec)
              i == insert_and_close(e.w, [sql |-> sql, stmt |-> g.stmt], o.close)
          IN IF i.res # "Ok"
             THEN Ret(TransactionDrop(i.w), "ErrCacheClose") ELSE
             IF e.res # "Ok"
             THEN Ret(TransactionDrop(i.w), "ErrExecute") ELSE
             LET f == try_from(i.w, o.conv)
             IN IF f.res # "Ok"
                THEN Ret(TransactionDrop(f.w), "ErrConvert") ELSE
             LET c == TransactionCommit(f.w, o.commit)
             IN Ret(c.w, IF c.res = "Ok" THEN "Ok" ELSE "ErrCommit")

\* stmt is the statement the returned StmtIter owns, NoStmt when none is returned
query_iter(w, sql, o) ==
    LET none(x, res) == [w |-> x, res |-> res, stmt |-> NoStmt]
        t == TransactionNew(w, o.begin)
    IN IF t.res # "Ok" THEN none(t.w, "ErrBegin") ELSE
       LET g == get_or_prepare(t.w, sql, o.prep)
       IN IF g.res # "Ok"
          THEN none(TransactionDrop(g.w), "ErrPrepare") ELSE
          LET e == StmtExecute(g.w, g.stmt, o.exec)
          IN IF e.res = "Ok"
             THEN [w |-> e.w, res |-> "Ok", stmt |-> g.stmt]
             ELSE LET i == insert_and_close(e.w, [sql |-> sql, stmt |-> g.stmt],
                                            o.close)
                  IN none(TransactionDrop(i.w),
                          IF i.res # "Ok" THEN "ErrCacheClose" ELSE "ErrExecute")

\* faulty variant of StmtIterNextCall: a fetch error tears the sequence down at once
StmtIterNextCall_teardown_on_error(w, it, outcome, convOk) ==
    LET f == fetch(w, it.stmt, outcome)
    IN CASE f.res = "Err" ->
              LET c == StmtCloseCursor(f.w, it.stmt, TRUE)
                  r == TransactionCommitRetaining(c.w, TRUE)
              IN Ret(r.w, "ErrFetch")
         [] f.res = "End" -> Ret(f.w, "End")
         [] OTHER -> Ret(try_from(f.w, convOk).w,
                         IF convOk THEN "Row" ELSE "ErrConvert")

\* impl Iterator for StmtIter
StmtIterNextCall(w, it, outcome, convOk) ==
    LET f == fetch(w, it.stmt, outcome)
    IN CASE f.res = "Err" -> Ret(f.w, "ErrFetch")
         [] f.res = "End" -> Ret(f.w, "End")
         [] OTHER -> Ret(try_from(f.w, convOk).w,
                         IF convOk THEN "Row" ELSE "ErrConvert")

\* faulty variant of StmtIterDrop: each step propagates its error with ?
StmtIterDrop_propagating(w, it, ccOk, closeOk, crOk) ==
    LET c == StmtCloseCursor(w, it.stmt, ccOk)
    IN IF c.res # "Ok" THEN TransactionDrop(c.w) ELSE
       LET i == insert_and_close(c.w, [sql |-> it.sql, stmt |-> it.stmt],
                                 closeOk)
       IN IF i.res # "Ok" THEN TransactionDrop(i.w) ELSE
          TransactionDrop(TransactionCommitRetaining(i.w, crOk).w)

\* faulty variant of StmtIterDrop: the statement is closed instead of going back to the cache
StmtIterDrop_closing(w, it, ccOk, closeOk, crOk) ==
    LET c == StmtCloseCursor(w, it.stmt, ccOk)
        i == StmtClose([c.w EXCEPT !.checkedOut = @ \ {it.stmt}], it.stmt,
                       closeOk)
        r == TransactionCommitRetaining(i.w, crOk)
    IN TransactionDrop(r.w)

\* impl Drop for StmtIter, then the drop of its field tr
StmtIterDrop(w, it, ccOk, closeOk, crOk) ==
    LET c == StmtCloseCursor(w, it.stmt, ccOk)
        i == insert_and_close(c.w, [sql |-> it.sql, stmt |-> it.stmt], closeOk)
        r == TransactionCommitRetaining(i.w, crOk)
    IN TransactionDrop(r.w)

Init ==
    /\ capacity = StmtCacheSize
    /\ conn = "open"
    /\ handle = 1
    /\ db = "attached"
    /\ cache = << >>
    /\ checkedOut = {}
    /\ allocated = {}
    /\ stmt_data_map = {}
    /\ detachCount = 0
    /\ iter = NoIter
    /\ log = << >>
    /\ result = [call |-> "open", sql |-> 0, res |-> "Ok"]

(***************************************************************************)
(* Actions: one per call on the Connection or on the StmtIter              *)
(***************************************************************************)
IsCloseCursor(e, h) ==
    e.op = "free_statement" /\ e.arg = "CloseCursor" /\ e.h = h

IsCacheReturn(e, h) == e.op = "insert_and_close" /\ e.h = h

IsCommitRetaining(e) ==
    e.op = "transaction_operation" /\ e.arg = "CommitRetaining"

\* teardown steps the last handler ran for the sequence it
Accounted(it, l) ==
    LET cc == {k \in 1..Len(l) : IsCloseCursor(l[k], it.stmt)}
        rt == {k \in 1..Len(l) : IsCacheReturn(l[k], it.stmt)}
        cr == {k \in 1..Len(l) : IsCommitRetaining(l[k])}
    IN [it EXCEPT !.cc = @ + Cardinality(cc), !.ret = @ + Cardinality(rt),
                  !.cr = @ + Cardinality(cr)]

\* the Connection is not mutably borrowed by a living StmtIter
Free == conn = "open" /\ iter.state # "live"

Cached == {cache[i].stmt : i \in 1..Len(cache)}

\* The outcomes of the round trips a pipeline call on sql can reach; an
\* outcome stays at its default when the handler never reaches its round trip.
\* kind: "execute", "execute_returnable" or "query_iter"
Outcomes(sql, kind) ==
    LET hit == HasSql(cache, sql)
        evicts == Len(cache) >= capacity + (IF hit THEN 1 ELSE 0)
        choice(c) == IF c THEN BOOLEAN ELSE {TRUE}
        acquired(x) == x.begin /\ x.prep = "ok"
        returned(x) == acquired(x) /\ x.exec /\ x.close /\ kind # "query_iter"
        s1 == {[begin |-> b] : b \in BOOLEAN}
        s2 == UNION {{x @@ [prep |-> v] :
                        v \in (IF x.begin /\ ~hit
                               THEN {"ok", "alloc_fail", "prepare_fail"}
                               ELSE {"ok"})} : x \in s1}
        s3 == UNION {{x @@ [exec |-> v] : v \in choice(acquired(x))} : x \in s2}
        s4 == UNION {{x @@ [close |-> v] :
                        v \in choice(acquired(x) /\ evicts
                                     /\ (kind = "query_iter" => ~x.exec))} :
                     x \in s3}
        s5 == UNION {{x @@ [conv |-> v] :
                        v \in choice(returned(x)
                                     /\ kind = "execute_returnable")} :
                     x \in s4}
    IN UNION {{x @@ [commit |-> v] :
                 v \in choice(returned(x) /\ x.conv)} : x \in s5}

CanPrepare(sql) == HasSql(cache, sql) \/ Cardinality(allocated) < MaxStmts

Execute ==
    /\ Free
    /\ \E sql \in Sqls :
          /\ CanPrepare(sql)
          /\ \E o \in Outcomes(sql, "execute") :
                LET r == execute(World, sql, o)
                IN /\ Store(r.w)
                   /\ result' = [call |-> "execute", sql |-> sql, res |-> r.res]
    /\ iter' = NoIter
    /\ UNCHANGED << capacity, conn >>

ExecuteReturnable ==
    /\ Free
    /\ \E sql \in Sqls :
          /\ CanPrepare(sql)
          /\ \E o \in Outcomes(sql, "execute_returnable") :
                LET r == execute_returnable(World, sql, o)
                IN /\ Store(r.w)
                   /\ result' = [call |-> "execute_returnable", sql |-> sql,
                                 res |-> r.res]
    /\ iter' = NoIter
    /\ UNCHANGED << capacity, conn >>

QueryIter ==
    /\ Free
    /\ \E sql \in Sqls :
          /\ CanPrepare(sql)
          /\ \E o \in Outcomes(sql, "query_iter") :
                LET r == query_iter(World, sql, o)
                IN /\ Store(r.w)
                   /\ result' = [call |-> "query_iter", sql |-> sql,
                                 res |-> r.res]
                   /\ IF r.res = "Ok"
                      THEN \E n \in 0..MaxRows :
                              iter' = [NoIter EXCEPT !.state = "live",
                                                     !.sql = sql,
                                                     !.stmt = r.stmt,
                                                     !.rows = n]
                      ELSE iter' = NoIter
    /\ UNCHANGED << capacity, conn >>

StmtIterNext ==
    /\ iter.state = "live"
    /\ \E outcome \in {"row", "bad_row", "end", "err"}, convOk \in BOOLEAN :
          /\ outcome \in {"row", "bad_row"} => iter.rows > 0
          /\ outcome = "end" => iter.rows = 0
          /\ outcome # "row" => convOk
          /\ LET r == StmtIterNextCall(World, iter, outcome, convOk)
             IN /\ Store(r.w)
                /\ result' = [call |-> "next", sql |-> iter.sql, res |-> r.res]
                /\ iter' = [Accounted(iter, r.w.log) EXCEPT
                              !.rows = IF /\ outcome \in {"row", "bad_row"}
                                          /\ iter.stmt \in stmt_data_map
                                       THEN @ - 1 ELSE @,
                              !.ended = @ \/ r.res = "End"]
    /\ UNCHANGED << capacity, conn >>

DropIter ==
    /\ iter.state = "live"
    /\ \E ccOk \in BOOLEAN, closeOk \in BOOLEAN,
          crOk \in BOOLEAN :
          LET w == StmtIterDrop(World, iter, ccOk, closeOk, crOk)
          IN /\ Len(cache) < capacity => closeOk
             /\ Store(w)
             /\ result' = [call |-> "drop_iter", sql |-> iter.sql, res |-> "None"]
             /\ iter' = [Accounted(iter, w.log) EXCEPT !.state = "dropped"]
    /\ UNCHANGED << capacity, conn >>

WithTransaction ==
    /\ Free
    /\ \E b \in BOOLEAN, c \in BOOLEAN, t \in BOOLEAN :
          /\ ~b => (c /\ t)
          /\ LET r == with_transaction(World, [begin |-> b, closure |-> c,
                                               retain |-> t])
             IN /\ Store(r.w)
                /\ result' = [call |-> "with_transaction", sql |-> 0,
                              res |-> r.res]
    /\ iter' = NoIter
    /\ UNCHANGED << capacity, conn >>

Close ==
    /\ Free
    /\ \E bad \in SUBSET Cached, detachOk \in BOOLEAN :
          LET r == close(World, bad, detachOk)
          IN /\ Store(r.w)
             /\ result' = [call |-> "close", sql |-> 0, res |-> r.res]
    /\ conn' = "closed"
    /\ iter' = NoIter
    /\ UNCHANGED capacity

DropConnection ==
    /\ Free
    /\ \E bad \in SUBSET Cached, detachOk \in BOOLEAN :
          /\ Store(ConnectionDrop(World, bad, detachOk))
          /\ result' = [call |-> "drop", sql |-> 0, res |-> "None"]
    /\ conn' = "discarded"
    /\ iter' = NoIter
    /\ UNCHANGED capacity

DropDatabase ==
    /\ Free
    /\ \E dropOk \in BOOLEAN, bad \in SUBSET Cached, detachOk \in BOOLEAN :
          LET r == conn_drop_database(World, dropOk, bad, detachOk)
          IN /\ dropOk => detachOk
             /\ Store(r.w)
             /\ result' = [call |-> "drop_database", sql |-> 0, res |-> r.res]
    /\ conn' = "discarded"
    /\ iter' = NoIter
    /\ UNCHANGED capacity

Next ==
    \/ Execute
    \/ ExecuteReturnable
    \/ QueryIter
    \/ StmtIterNext
    \/ DropIter
    \/ WithTransaction
    \/ Close
    \/ DropConnection
    \/ DropDatabase

Spec == Init /\ [][Next]_vars

TypeOK ==
    /\ capacity = StmtCacheSize
    /\ conn \in {"open", "closed", "discarded"}
    /\ db \in {"attached", "detached", "dropped"}
    /\ Len(cache) <= capacity
    /\ checkedOut \subseteq StmtHandles
    /\ stmt_data_map \subseteq allocated

(***************************************************************************)
(* The statement cache under any caller that keeps to its protocol: a      *)
(* statement is asked for at any time, whatever is checked out, a          *)
(* checked-out statement is returned once, and close_all is called with    *)
(* statements still checked out.                                           *)
(***************************************************************************)
\* the SQL text a checked-out statement was prepared from
SqlOf(h) == CHOOSE sql \in Sqls : sql % MaxSql = h % MaxSql

CacheCanPrepare(sql) ==
    HasSql(cache, sql) \/ Cardinality(allocated) <= MaxStmts

\* no statement whose backend close failed is still allocated
NoneLeaked == allocated \subseteq Cached \cup checkedOut

\* A text is prepared afresh while at most one statement of it is allocated:
\* two statements of one text are what a redundant return takes.  One more
\* statement than a Connection call needs can be allocated, so that a return
\* evicts while another statement is checked out.  A backend close fails
\* only while no statement of an earlier failed close is still allocated.
CacheGetOrPrepare ==
    /\ \E sql \in Sqls :
          /\ CacheCanPrepare(sql)
          /\ ~HasSql(cache, sql) =>
                \A g, h \in allocated :
                    (SqlOf(g) = sql /\ SqlOf(h) = sql) => g = h
          /\ \E outcome \in {"ok", "alloc_fail"} :
                /\ HasSql(cache, sql) => outcome = "ok"
                /\ LET r == get_or_prepare(World, sql, outcome)
                   IN /\ Store(r.w)
                      /\ result' = [call |-> "get_or_prepare", sql |-> sql,
                                    res |-> r.res]
    /\ UNCHANGED << capacity, conn, iter >>

CacheInsertAndClose ==
    /\ \E h \in checkedOut, closeOk \in BOOLEAN :
          /\ (~HasSql(cache, SqlOf(h)) /\ Len(cache) < capacity) => closeOk
          /\ ~NoneLeaked => closeOk
          /\ LET r == insert_and_close(World, [sql |-> SqlOf(h), stmt |-> h],
                                       closeOk)
             IN /\ Store(r.w)
                /\ result' = [call |-> "insert_and_close", sql |-> SqlOf(h),
                              res |-> r.res]
    /\ UNCHANGED << capacity, conn, iter >>

CacheCloseAll ==
    /\ \E bad \in SUBSET Cached :
          /\ ~NoneLeaked => bad = {}
          /\ Store(close_all(World, bad))
          /\ result' = [call |-> "close_all", sql |-> 0, res |-> "None"]
    /\ UNCHANGED << capacity, conn, iter >>

CacheNext ==
    \/ CacheGetOrPrepare
    \/ CacheInsertAndClose
    \/ CacheCloseAll

CacheSpec == Init /\ [][CacheNext]_vars

(***************************************************************************)
(* The statement operations of the native backend under any caller: every  *)
(* handle value is passed, allocated or not.  The backend rejects a handle *)
(* that is not allocated.                                                  *)
(***************************************************************************)
\* Handle values are opaque: the caller passes a handle that is allocated or
\* a key of the map, or one value that is neither.
Passed ==
    LET known == allocated \cup stmt_data_map
        other == StmtHandles \ known
    IN known \cup {h \in other : \A g \in other : h <= g}

NativeResult(call, h, res) == [call |-> call, sql |-> 0, res |-> res, h |-> h]

NativePrepare ==
    /\ Cardinality(allocated) < MaxStmts
    /\ \E sql \in Sqls, outcome \in {"ok", "alloc_fail", "prepare_fail"} :
          LET r == prepare_statement(World, sql, outcome)
          IN /\ Store(r.w)
             /\ result' = NativeResult("prepare_statement", r.stmt, r.res)
    /\ UNCHANGED << capacity, conn, iter >>

\* A successful drop leaves the handle value or clears it to 0; it is cleared
\* only while the map holds no handle of an earlier cleared drop.
NativeFree ==
    /\ \E h \in Passed, op \in {"CloseCursor", "Drop"}, ok \in BOOLEAN,
          cleared \in BOOLEAN :
       LET left == IF cleared THEN NoStmt ELSE h
       IN /\ ok => h \in allocated
          /\ cleared => (ok /\ op = "Drop" /\ stmt_data_map \subseteq allocated)
          /\ LET r == free_statement(World, h, op, ok, left)
             IN /\ Store(r.w)
                /\ result' = NativeResult("free_statement", h, r.res)
    /\ UNCHANGED << capacity, conn, iter >>

NativeExecute ==
    /\ \E h \in Passed, ok \in BOOLEAN :
          /\ ok => h \in allocated
          /\ LET r == backend_execute(World, h, ok)
             IN /\ Store(r.w)
                /\ result' = NativeResult("execute", h, r.res)
    /\ UNCHANGED << capacity, conn, iter >>

NativeFetch ==
    /\ \E h \in Passed, outcome \in {"row", "bad_row", "end", "err"} :
          /\ outcome # "err" => h \in allocated
          /\ LET r == fetch(World, h, outcome)
             IN /\ Store(r.w)
                /\ result' = NativeResult("fetch", h, r.res)
    /\ UNCHANGED << capacity, conn, iter >>

NativeNext ==
    \/ NativePrepare
    \/ NativeFree
    \/ NativeExecute
    \/ NativeFetch

NativeSpec == Init /\ [][NativeNext]_vars

(***************************************************************************)
(* Reading the log                                                         *)
(***************************************************************************)
Idx == 1..Len(log)

IsDrop(e) == e.op = "free_statement" /\ e.arg = "Drop"

IsOp(e, op) == e.op = op

IsTrOp(e, arg) == e.op = "transaction_operation" /\ e.arg = arg

Issued(op) == \E k \in Idx : IsOp(log[k], op)

Succeeded(op) == \E k \in Idx : IsOp(log[k], op) /\ log[k].ok

Failed(op) == \E k \in Idx : IsOp(log[k], op) /\ ~log[k].ok

OneShot == result.call \in {"execute", "execute_returnable"}

(***************************************************************************)
(* C1: when a StmtIter ends, its teardown closes the cursor, then returns  *)
(* the statement to the cache with insert_and_close, then commit-retains   *)
(* the Transaction, in this order; a failure of the first step does not    *)
(* prevent the other two and a failure of the second does not prevent the  *)
(* third.                                                                  *)
(***************************************************************************)
TeardownInOrder ==
    result.call = "drop_iter" =>
        \E i, j, k \in Idx :
            /\ i < j /\ j < k
            /\ IsCloseCursor(log[i], iter.stmt)
            /\ IsCacheReturn(log[j], iter.stmt)
            /\ IsCommitRetaining(log[k])

TeardownInOrderWitness ==
    /\ result.call = "drop_iter"
    /\ \E i, j, k \in Idx :
          /\ i < j /\ j < k
          /\ IsCloseCursor(log[i], iter.stmt) /\ ~log[i].ok
          /\ IsCacheReturn(log[j], iter.stmt) /\ ~log[j].ok
          /\ IsCommitRetaining(log[k])

(***************************************************************************)
(* C2: the three teardown steps run exactly once over the lifetime of a    *)
(* StmtIter: none has run while it is alive, each has run once when it is  *)
(* gone, whatever was fetched before.                                      *)
(***************************************************************************)
TeardownExactlyOnce ==
    /\ iter.state = "live" => iter.cc = 0 /\ iter.ret = 0 /\ iter.cr = 0
    /\ iter.state = "dropped" => iter.cc = 1 /\ iter.ret = 1 /\ iter.cr = 1

TeardownExactlyOnceWitness ==
    /\ iter.state = "dropped"
    /\ iter.rows > 0 /\ iter.rows < MaxRows
    /\ iter.cc = 1 /\ iter.ret = 1 /\ iter.cr = 1

(***************************************************************************)
(* C3: dropping a StmtIter, whatever it consumed, leaves its statement in  *)
(* the cache and commit-retains; the next query_iter or execute with the   *)
(* same SQL text issues no backend prepare.                                *)
(***************************************************************************)
AbandonedStatementIsReused ==
    [][ /\ result'.call = "drop_iter" =>
              /\ HasSql(cache', result'.sql)
              /\ \E k \in 1..Len(log') : IsCommitRetaining(log'[k])
        /\ ( /\ result.call = "drop_iter"
             /\ result'.call \in {"query_iter", "execute"}
             /\ result'.sql = result.sql )
           => \A k \in 1..Len(log') : log'[k].op # "prepare_statement"
      ]_vars

AbandonedStatementIsReusedWitness ==
    /\ result.call = "drop_iter"
    /\ iter.rows = MaxRows
    /\ HasSql(cache, iter.sql)
    /\ \E k \in Idx : IsCommitRetaining(log[k])

(***************************************************************************)
(* C4: when execute, execute_returnable or a query_iter whose backend      *)
(* execute failed returns, every statement the call got from               *)
(* get_or_prepare has been handed to insert_and_close, none is checked     *)
(* out, and the Connection is open for the next call.                      *)
(***************************************************************************)
NothingLeftCheckedOut ==
    (OneShot \/ (result.call = "query_iter" /\ result.res # "Ok")) =>
        /\ checkedOut = {}
        /\ conn = "open"
        /\ \A k \in Idx :
              (log[k].op = "get_or_prepare" /\ log[k].ok) =>
                  \E j \in Idx : j > k /\ IsCacheReturn(log[j], log[k].h)

NothingLeftCheckedOutWitness ==
    /\ result.call = "execute"
    /\ result.res = "ErrExecute"
    /\ Failed("execute")
    /\ Succeeded("get_or_prepare")
    /\ checkedOut = {}

(***************************************************************************)
(* C5: a failure of the cache-return step inside execute,                  *)
(* execute_returnable or query_iter is swallowed: after a successful       *)
(* backend execute the call goes on to convert and commit, after a failed  *)
(* one the caller receives the execute error.                              *)
(***************************************************************************)
CacheCloseFailureSwallowed ==
    ( /\ result.call \in {"execute", "execute_returnable", "query_iter"}
      /\ Failed("insert_and_close") ) =>
        /\ result.res # "ErrCacheClose"
        /\ Failed("execute") => result.res = "ErrExecute"
        /\ (Succeeded("execute") /\ ~Failed("try_from")) =>
              \E k \in Idx : IsTrOp(log[k], "Commit")

(***************************************************************************)
(* C6: execute and execute_returnable commit only after the backend        *)
(* execute (and the conversion of the returned row) succeeded; when        *)
(* execute or conversion fails no commit is issued, the transaction ends   *)
(* by the rollback on discard and the caller gets that error.              *)
(***************************************************************************)
CommitOnlyAfterSuccess ==
    OneShot =>
        /\ \A k \in Idx : IsTrOp(log[k], "Commit") =>
              /\ \E j \in Idx : j < k /\ IsOp(log[j], "execute") /\ log[j].ok
              /\ ~Failed("try_from")
        /\ Failed("execute") =>
              /\ \A k \in Idx : ~IsTrOp(log[k], "Commit")
              /\ \E k \in Idx : IsTrOp(log[k], "Rollback")
              /\ result.res = "ErrExecute"
        /\ Failed("try_from") =>
              /\ \A k \in Idx : ~IsTrOp(log[k], "Commit")
              /\ \E k \in Idx : IsTrOp(log[k], "Rollback")
              /\ result.res = "ErrConvert"

(***************************************************************************)
(* C7: over the lifetime of a Connection that was closed with close(),     *)
(* detach is invoked exactly once for its database handle, whether or not  *)
(* the detach succeeded.                                                   *)
(***************************************************************************)
ClosedDetachesOnce == conn = "closed" => detachCount = 1

ClosedDetachesOnceWitness ==
    /\ conn = "closed"
    /\ result.res = "ErrDetach"
    /\ db = "attached"
    /\ detachCount = 1

(***************************************************************************)
(* C8: after drop_database the backend drop-database call is the last      *)
(* backend operation for the database handle: no detach and no free of a   *)
(* cached statement follows it.                                            *)
(***************************************************************************)
DropDatabaseIsLast ==
    result.call = "drop_database" =>
        \A k \in Idx : IsOp(log[k], "drop_database") =>
            \A j \in Idx : j > k =>
                ~IsOp(log[j], "detach_database") /\ ~IsDrop(log[j])

(***************************************************************************)
(* C9: on close() and on the discard of a Connection every available       *)
(* cached statement is closed at the backend before the database handle    *)
(* is detached, and detach is invoked also when such a close fails.        *)
(***************************************************************************)
CachedClosedBeforeDetach ==
    [][ result'.call \in {"close", "drop", "drop_database"} =>
          \E d \in 1..Len(log') :
              /\ IsOp(log'[d], "detach_database")
              /\ \A i \in 1..Len(cache) :
                    \E k \in 1..Len(log') :
                        /\ k < d
                        /\ IsDrop(log'[k])
                        /\ log'[k].h = cache[i].stmt
      ]_vars

CachedClosedBeforeDetachWitness ==
    /\ result.call \in {"close", "drop"}
    /\ \E k, d \in Idx :
          /\ k < d
          /\ IsDrop(log[k]) /\ ~log[k].ok
          /\ IsOp(log[d], "detach_database")

(***************************************************************************)
(* C10: close() returns an error exactly when the backend detach fails,    *)
(* and then the detach error; a failed close of a cached statement does    *)
(* not change the result.  The teardown on discard returns nothing.        *)
(***************************************************************************)
CloseReportsDetachOnly ==
    /\ result.call = "close" =>
          /\ result.res \in {"Ok", "ErrDetach"}
          /\ result.res = "ErrDetach" <=> Failed("detach_database")
    /\ result.call = "drop" => result.res = "None"

CloseReportsDetachOnlyWitness ==
    /\ result.call = "close"
    /\ result.res = "Ok"
    /\ \E k \in Idx : IsDrop(log[k]) /\ ~log[k].ok
    /\ Succeeded("detach_database")

(***************************************************************************)
(* C11: with_transaction begins one Transaction, runs the closure once     *)
(* and, after the closure returned, issues exactly one retaining           *)
(* operation: commit-retaining when the closure returned success,          *)
(* rollback-retaining when it returned an error.  When begin fails the     *)
(* closure is not run and no retaining operation is issued.                *)
(***************************************************************************)
IsRetaining(e) ==
    IsTrOp(e, "CommitRetaining") \/ IsTrOp(e, "RollbackRetaining")

ClosureRuns == {k \in Idx : IsOp(log[k], "closure")}

RetainingOps == {k \in Idx : IsRetaining(log[k])}

RetainsOnceAfterClosure ==
    result.call = "with_transaction" =>
        /\ Cardinality({k \in Idx : IsOp(log[k], "begin_transaction")}) = 1
        /\ IsOp(log[1], "begin_transaction")
        /\ Failed("begin_transaction") =>
              ClosureRuns = {} /\ RetainingOps = {}
        /\ Succeeded("begin_transaction") =>
              /\ Cardinality(ClosureRuns) = 1
              /\ Cardinality(RetainingOps) = 1
              /\ \A c \in ClosureRuns : \A r \in RetainingOps :
                    /\ c < r
                    /\ log[r].arg = IF log[c].ok THEN "CommitRetaining"
                                                 ELSE "RollbackRetaining"

RetainsOnceAfterClosureWitness ==
    /\ result.call = "with_transaction"
    /\ Failed("closure")
    /\ \E k \in Idx : IsTrOp(log[k], "RollbackRetaining") /\ log[k].ok

(***************************************************************************)
(* C12: with_transaction returns the outcome of the closure, its success   *)
(* value or its own error, whatever the outcome of the commit-retaining    *)
(* or rollback-retaining that follows the closure.                         *)
(***************************************************************************)
ClosureOutcomeReturned ==
    (result.call = "with_transaction" /\ Issued("closure")) =>
        result.res = IF Succeeded("closure") THEN "Ok" ELSE "ErrClosure"

(***************************************************************************)
(* C13: when begin or prepare fails inside execute, execute_returnable or  *)
(* query_iter the error is returned at once and nothing is left live: a    *)
(* transaction the call began is rolled back, no statement handle the      *)
(* failed prepare allocated stays allocated at the backend, no statement   *)
(* is checked out and the cache content is unchanged.                      *)
(***************************************************************************)
AcquisitionFailed ==
    /\ result.call \in {"execute", "execute_returnable", "query_iter"}
    /\ result.res \in {"ErrBegin", "ErrPrepare"}

AcquisitionFailureLeavesNothing ==
    [][ AcquisitionFailed' =>
          /\ Succeeded("begin_transaction")' =>
                \E k \in 1..Len(log') : IsTrOp(log'[k], "Rollback")
          /\ \A k \in 1..Len(log') :
                log'[k].op \notin {"execute", "insert_and_close", "fetch"}
          /\ allocated' = allocated
          /\ checkedOut' = {}
          /\ cache' = cache
      ]_vars

(***************************************************************************)
(* C14: in every reachable state of a Connection the number of available   *)
(* entries of the statement cache is at most the capacity the Connection   *)
(* was opened with.                                                        *)
(***************************************************************************)
CacheWithinCapacity == Len(cache) <= capacity

CacheWithinCapacityWitness ==
    /\ result.call \in {"execute", "drop_iter"}
    /\ \E k \in Idx : IsCacheReturn(log[k], cache[Len(cache)].stmt)
    /\ \E k \in Idx : IsDrop(log[k])
    /\ Len(cache) = capacity

(***************************************************************************)
(* C15: when a call returns a statement with a new SQL text to a cache     *)
(* holding capacity-many available entries, exactly one entry is evicted:  *)
(* the least recently returned one.  Its backend statement is dropped      *)
(* before the return completes, the other entries stay and the returned    *)
(* statement becomes the most recently returned entry.                     *)
(***************************************************************************)
ReturnsToFullCache ==
    /\ Len(cache) = capacity
    /\ result'.call \in {"execute", "execute_returnable", "query_iter",
                          "drop_iter"}
    /\ ~HasSql(cache, result'.sql)
    /\ \E k \in 1..Len(log') : log'[k].op = "insert_and_close"

EvictsLeastRecentlyReturned ==
    [][ ReturnsToFullCache =>
          \E j \in 1..Len(log') :
              /\ log'[j].op = "insert_and_close"
              /\ Cardinality({k \in 1..Len(log') : IsDrop(log'[k])}) = 1
              /\ \E k \in 1..(j - 1) :
                    IsDrop(log'[k]) /\ log'[k].h = Head(cache).stmt
              /\ cache' = Append(Tail(cache),
                                 [sql |-> result'.sql, stmt |-> log'[j].h])
      ]_vars

EvictsLeastRecentlyReturnedWitness ==
    /\ result.call = "drop_iter"
    /\ Len(cache) = capacity
    /\ cache[Len(cache)] = [sql |-> iter.sql, stmt |-> iter.stmt]
    /\ \E k \in Idx : IsDrop(log[k]) /\ log[k].ok /\ log[k].h # iter.stmt

(***************************************************************************)
(* C16: the cache holds at most one available entry per SQL text; when     *)
(* insert_and_close receives a statement whose text already has an         *)
(* available entry, the incoming statement is closed at the backend in     *)
(* that call and the available entries are left as they were.              *)
(***************************************************************************)
\* the statement the last insert_and_close was given
Returned(l) ==
    l[CHOOSE j \in 1..Len(l) : l[j].op = "insert_and_close"].h

DropsIn(l) == {k \in 1..Len(l) : IsDrop(l[k])}

OneEntryPerText ==
    [][ /\ \A i, j \in 1..Len(cache') :
              cache'[i].sql = cache'[j].sql => i = j
        /\ ( /\ result'.call = "insert_and_close"
             /\ HasSql(cache, result'.sql) ) =>
                /\ \E k \in DropsIn(log') : log'[k].h = Returned(log')
                /\ Cardinality(DropsIn(log')) = 1
                /\ Returned(log') \notin checkedOut'
                /\ cache' = cache
      ]_vars

OneEntryPerTextWitness ==
    /\ result.call = "insert_and_close"
    /\ HasSql(cache, result.sql)
    /\ cache[IndexOf(cache, result.sql)].stmt # Returned(log)
    /\ \E k \in DropsIn(log) : log[k].h = Returned(log) /\ log[k].ok
    /\ Returned(log) \notin allocated

(***************************************************************************)
(* C17: a statement handle is never held by two checkouts and the cache    *)
(* never frees a checked-out statement: get_or_prepare hands out a         *)
(* statement that is not checked out, preparing a fresh one when the only  *)
(* statement of the text is checked out, and neither eviction nor          *)
(* close_all drops a handle that stays checked out.                        *)
(***************************************************************************)
\* the statement the last get_or_prepare handed out
Obtained(l) ==
    l[CHOOSE j \in 1..Len(l) : l[j].op = "get_or_prepare"].h

NoSharedCheckout ==
    [][ /\ (result'.call = "get_or_prepare" /\ result'.res = "Ok") =>
              /\ Obtained(log') \notin checkedOut
              /\ Obtained(log') \in checkedOut'
              /\ checkedOut \subseteq checkedOut'
              /\ ~HasSql(cache, result'.sql) =>
                    \E k \in 1..Len(log') :
                        /\ log'[k].op = "prepare_statement"
                        /\ log'[k].h = Obtained(log')
                        /\ log'[k].h \notin allocated
        /\ \A k \in DropsIn(log') :
              /\ log'[k].h \notin checkedOut'
              /\ log'[k].h \in checkedOut =>
                    /\ result'.call = "insert_and_close"
                    /\ log'[k].h = Returned(log')
        /\ checkedOut' \cap {cache'[i].stmt : i \in 1..Len(cache')} = {}
      ]_vars

NoSharedCheckoutWitness ==
    /\ result.call = "get_or_prepare"
    /\ result.res = "Ok"
    /\ \E k \in Idx : log[k].op = "prepare_statement" /\ log[k].h = Obtained(log)
    /\ \E g \in checkedOut : g # Obtained(log) /\ SqlOf(g) = result.sql

(***************************************************************************)
(* C20: a backend failure while closing a statement during eviction, the   *)
(* close of a redundant entry or close_all does not stop the bookkeeping   *)
(* of the cache: the statement is out of the available entries all the     *)
(* same and the cache holds what it would hold had the close succeeded.    *)
(***************************************************************************)
FailedDropsIn(l) == {k \in DropsIn(l) : ~l[k].ok}

CloseFailureKeepsBookkeeping ==
    [][ FailedDropsIn(log') # {} =>
          /\ result'.call \in {"insert_and_close", "close_all"}
          /\ \A k \in FailedDropsIn(log') :
                \A i \in 1..Len(cache') : cache'[i].stmt # log'[k].h
          /\ result'.call = "close_all" => cache' = << >>
          /\ result'.call = "insert_and_close" =>
                cache' = IF HasSql(cache, result'.sql)
                         THEN cache
                         ELSE Append(Tail(cache),
                                     [sql |-> result'.sql,
                                      stmt |-> Returned(log')])
      ]_vars

CloseFailureKeepsBookkeepingWitness ==
    /\ result.call = "insert_and_close"
    /\ Len(cache) = capacity
    /\ cache[Len(cache)].stmt = Returned(log)
    /\ \E k \in FailedDropsIn(log) :
          /\ log[k].h # Returned(log)
          /\ log[k].h \in allocated
          /\ log[k].h \notin Cached

(***************************************************************************)
(* C18: the core passes only valid handles to the backend: the database    *)
(* handle is used in no backend operation after its detach or              *)
(* drop-database succeeded, a statement handle is not executed, fetched    *)
(* or freed after its drop succeeded, and a transaction handle is not      *)
(* used after its commit or rollback succeeded.                            *)
(***************************************************************************)
UsesDb(e) ==
    e.op \in {"detach_database", "drop_database", "begin_transaction",
              "prepare_statement"}

UsesStmt(e) == e.op \in {"execute", "fetch", "free_statement"}

EndsDb(e) == e.op \in {"detach_database", "drop_database"} /\ e.ok

EndsTr(e) == (IsTrOp(e, "Commit") \/ IsTrOp(e, "Rollback")) /\ e.ok

StatementHandlesValid ==
    \A k \in 1..Len(log') :
        UsesStmt(log'[k]) =>
            /\ \/ log'[k].h \in allocated
               \/ \E j \in 1..(k - 1) :
                     /\ log'[j].op = "prepare_statement"
                     /\ log'[j].ok
                     /\ log'[j].h = log'[k].h
            /\ \A j \in 1..(k - 1) :
                  ~(IsDrop(log'[j]) /\ log'[j].ok /\ log'[j].h = log'[k].h)

TransactionHandlesValid ==
    \A k \in 1..Len(log') :
        log'[k].op = "transaction_operation" =>
            \A j \in 1..(k - 1) : ~EndsTr(log'[j])

DatabaseHandleValid ==
    \A k \in 1..Len(log') :
        UsesDb(log'[k]) =>
            /\ db = "attached"
            /\ \A j \in 1..(k - 1) : ~EndsDb(log'[j])

OnlyValidHandles ==
    [][ /\ DatabaseHandleValid
        /\ StatementHandlesValid
        /\ TransactionHandlesValid
      ]_vars

(***************************************************************************)
(* C19: a StmtIter is finite and not restartable: every advance issues     *)
(* exactly one backend fetch, the end of data makes the advance return     *)
(* the end of the sequence and not an error, and once an advance returned  *)
(* the end every later advance of the same StmtIter returns the end too    *)
(* and yields no row.                                                      *)
(***************************************************************************)
FetchesIn(l) == {k \in 1..Len(l) : l[k].op = "fetch"}

EndIsFinal ==
    [][ result'.call = "next" =>
          /\ Cardinality(FetchesIn(log')) = 1
          /\ \A k \in FetchesIn(log') :
                log'[k].arg = "end" => result'.res = "End"
          /\ iter.ended => result'.res = "End"
      ]_vars

(***************************************************************************)
(* C21: in the native backend a fetch on a statement handle that was       *)
(* dropped or never prepared returns an error without issuing the backend  *)
(* fetch call and without changing any backend state.                      *)
(***************************************************************************)
FetchOfDroppedIsRejected ==
    [][ (result'.call = "fetch" /\ result'.h \notin allocated) =>
          /\ result'.res = "Err"
          /\ FetchesIn(log') = {}
          /\ allocated' = allocated
          /\ stmt_data_map' = stmt_data_map
      ]_vars

(***************************************************************************)
(* C22: the per-statement data map of the native backend holds a handle    *)
(* exactly when a successful prepare returned it and no successful drop    *)
(* of it followed: a failed prepare adds nothing, a free with close-cursor *)
(* and a failed free leave the map as it was, a successful free with drop  *)
(* removes that handle and no other.                                       *)
(***************************************************************************)
\* the handles prepared and not dropped after the backend calls of l, from m
RECURSIVE Replay(_, _)
Replay(m, l) ==
    IF l = << >> THEN m
    ELSE LET e == Head(l)
         IN Replay(CASE e.op = "prepare_statement" /\ e.ok -> m \cup {e.h}
                     [] IsDrop(e) /\ e.ok -> m \ {e.h}
                     [] OTHER -> m,
                   Tail(l))

MapHoldsPreparedNotDropped ==
    [][ stmt_data_map' = Replay(stmt_data_map, log') ]_vars
====
